---- MODULE Spec2Model ----
(***************************************************************************)
(* Model of tarunps/press:                                                 *)
(*   razorpay_payment_record.py  capture handler (on_update), sync(),      *)
(*                               fetch_pending_payment_orders()            *)
(*   serial_console_log.py       run_reboot(), _run_reboot()               *)
(* Money is held in hundredths of a currency unit, so that the gateway's   *)
(* integer minor units divided by 100 stay exact.                          *)
(***************************************************************************)
EXTENDS Integers, Sequences, FiniteSets, TLC

VARIABLES
    status,          \* PaymentRecord.status as stored, per record
    rtype,           \* PaymentRecord.type, per record
    creation,        \* PaymentRecord.creation timestamp (hours), per record
    credits,         \* Balance Transactions created by allocate_credit_amount
    invoices,        \* Invoice documents, in insertion order
    jobs,            \* teams enqueued for finalize-unpaid-invoices
    calls,           \* collaborator calls made by the last on_update
    fetched,         \* what client.payment.fetch returned to the last on_update
    result,          \* how the last on_update ended
    webhookLog,      \* Razorpay Webhook Log documents
    last,            \* the last gateway round (a sync() call or one sweep
                     \* iteration): its order, its answer, how it ended
    sweepPc,         \* position of fetch_pending_payment_orders
    hours,           \* its parameter: the age threshold
    started,         \* its reading of datetime.now(), in hours
    pending_orders,  \* its local: the selected order ids
    queried,         \* order ids it asked the gateway about, in order
    sweepErrors,     \* order ids it passed to log_error, in order
    req,             \* per reboot request: the state of its transaction
    afterCommit,     \* reboot tasks waiting for their transaction's commit
    queue,           \* reboot tasks handed to the background queue
    pc,              \* per reboot task: position inside _run_reboot
    session,         \* per reboot task: whether pexpect.spawn has run
    sends,           \* per reboot task: what it sent to its session
    waits            \* per reboot task: how each expect() ended

payVars == <<status, rtype, credits, invoices, jobs, calls, fetched, result>>
syncVars == <<creation, webhookLog, last, sweepPc, hours, started,
              pending_orders, queried, sweepErrors>>
rebootVars == <<req, afterCommit, queue, pc, session, sends, waits>>
vars == <<payVars, syncVars, rebootVars>>

-----------------------------------------------------------------------------
(* Bounds of the model *)

MaxCredits == 2     \* capture-handler runs that reach the ledger
MaxItems == 1       \* items in one gateway answer
MaxNow == 2         \* latest reading of the clock
MaxHours == 1       \* largest age threshold passed to the sweep

Records == {1, 2}
PayRecords == {1}   \* the record whose saves the capture handler is followed on
Tasks == {1, 2}

Statuses == {"Pending", "Failed", "Captured"}
Types == {"Prepaid Credits", "Partnership Fee"}

\* order_id, payment_id and team of a record
OrderOf(r) == 100 + r
PaymentOf(r) == 200 + r
TeamOf(r) == 300 + r

Range(s) == {s[i] : i \in DOMAIN s}

-----------------------------------------------------------------------------
(* Gateway client: payment.fetch(payment_id) *)

\* what client.payment.fetch may return: "amount" in minor units, and "notes"
\* with a gst entry, as an empty mapping, or as the gateway's empty list
FetchedPayments ==
    {[amount |-> 10000, notes |-> "gst=18"],
     [amount |-> 10050, notes |-> "{}"],
     [amount |-> 10000, notes |-> "[]"]}

\* no payment was fetched
NoPayment == [amount |-> 0, notes |-> "-"]

\* an amount of whole currency units, in hundredths
Units(u) == u * 100

\* payment["amount"] / 100, a value in currency units, held in hundredths
AmountWithTax(payment) == payment.amount

\* a tax note that is never read
Gst_Ignored(payment) == 0

\* float(payment["notes"].get("gst", 0)), in hundredths
Gst(payment) == IF payment.notes = "gst=18" THEN Units(18) ELSE 0

\* where a collaborator call of the capture handler may raise
Faults == {"none", "fetch", "allocate", "insert", "submit", "enqueue"}

Call(op, id) == [op |-> op, id |-> id]

\* a handler that undoes its steps when it raises
Outcome_Undone(cr, inv, jb, cl, res) ==
    IF res = "raised"
        THEN [credits |-> credits, invoices |-> invoices, jobs |-> jobs,
              calls |-> cl, result |-> res]
        ELSE [credits |-> cr, invoices |-> inv, jobs |-> jb, calls |-> cl,
              result |-> res]

Outcome(cr, inv, jb, cl, res) ==
    [credits |-> cr, invoices |-> inv, jobs |-> jb, calls |-> cl, result |-> res]

\* a line item that names another transaction than the one just allocated
InvoiceItem_Unlinked(description, balance_transaction, amount) ==
    [description |-> description, document_type |-> "Balance Transaction",
     document_name |-> balance_transaction.name - 1, quantity |-> 1,
     rate |-> amount]

\* invoice.append("items", {...}): the line item naming the credit's transaction
InvoiceItem(description, balance_transaction, amount) ==
    [description |-> description, document_type |-> "Balance Transaction",
     document_name |-> balance_transaction.name, quantity |-> 1, rate |-> amount]

\* Body shared by process_prepaid_credits and process_partnership_fee: the two
\* differ in the credit's type, the invoice's type, the item's description and
\* the trailing enqueue.
Process(r, payment, fault, creditType, invoiceType, description, enqueues) ==
    LET c0 == <<Call("fetch", PaymentOf(r))>>
        amount_with_tax == AmountWithTax(payment)
        gst == Gst(payment)
        amount == amount_with_tax - gst
        c1 == Append(c0, Call("allocate_credit_amount", TeamOf(r)))
        balance_transaction ==
            [name |-> Len(credits) + 1, team |-> TeamOf(r), amount |-> amount,
             source |-> "Prepaid Credits", remark |-> PaymentOf(r),
             type |-> creditType]
        cr == Append(credits, balance_transaction)
        c2 == Append(c1, Call("insert", r))
        invoice ==
            [team |-> TeamOf(r), type |-> invoiceType, status |-> "Paid",
             total |-> amount, amount_due |-> amount, gst |-> gst,
             amount_due_with_tax |-> amount_with_tax,
             amount_paid |-> amount_with_tax,
             razorpay_order_id |-> OrderOf(r),
             razorpay_payment_record |-> r,
             items |-> <<InvoiceItem(description, balance_transaction, amount)>>,
             docstatus |-> 0]
        inserted == Append(invoices, invoice)
        c3 == Append(c2, Call("submit", r))
        submitted == Append(invoices, [invoice EXCEPT !.docstatus = 1])
        c4 == Append(c3, Call("enqueue", TeamOf(r)))
    IN  IF fault = "fetch" \/ payment.notes = "[]"
            THEN Outcome(credits, invoices, jobs, c0, "raised")
        ELSE IF fault = "allocate"
            THEN Outcome(credits, invoices, jobs, c1, "raised")
        ELSE IF fault = "insert"
            THEN Outcome(cr, invoices, jobs, c2, "raised")
        ELSE IF fault = "submit"
            THEN Outcome(cr, inserted, jobs, c3, "raised")
        ELSE IF ~enqueues
            THEN Outcome(cr, submitted, jobs, c3, "returned")
        ELSE IF fault = "enqueue"
            THEN Outcome(cr, submitted, jobs, c4, "raised")
        ELSE Outcome(cr, submitted, Append(jobs, TeamOf(r)), c4, "returned")

\* the handler without its trailing enqueue
process_prepaid_credits_NoEnqueue(r, payment, fault) ==
    Process(r, payment, fault, "unset", "Prepaid Credits", "Prepaid Credits", FALSE)

process_prepaid_credits(r, payment, fault) ==
    Process(r, payment, fault, "unset", "Prepaid Credits", "Prepaid Credits", TRUE)

\* the Prepaid Credits body run for a Partnership Fee record
process_partnership_fee_AsPrepaid(r, payment, fault) ==
    Process(r, payment, fault, "unset", "Prepaid Credits", "Prepaid Credits", TRUE)

process_partnership_fee(r, payment, fault) ==
    Process(r, payment, fault, "Partnership Fee", "Partnership Fees",
            "Partnership Fee", FALSE)

\* has_value_changed("status"): the stored value differs from the one being
\* saved; a record that was never saved has no stored value and counts as changed
has_value_changed(r, s) == status[r] # s

\* a condition that leaves out has_value_changed
Captures_AnySave(r, s) == s = "Captured"

\* the condition of on_update under which a process_* method runs
Captures(r, s) == has_value_changed(r, s) /\ s = "Captured"

on_update(r, s, payment, fault) ==
    IF Captures(r, s)
        THEN IF rtype[r] = "Prepaid Credits"
                 THEN process_prepaid_credits(r, payment, fault)
             ELSE IF rtype[r] = "Partnership Fee"
                 THEN process_partnership_fee(r, payment, fault)
             ELSE Outcome(credits, invoices, jobs, <<>>, "returned")
        ELSE Outcome(credits, invoices, jobs, <<>>, "returned")

\* The gateway and the faults matter only to a save that runs the handler,
\* and the payment only when the fetch returns it.
Relevant(r, s, payment, fault) ==
    /\ ~Captures(r, s) => fault = "none"
    /\ (~Captures(r, s) \/ fault = "fetch") =>
           payment = CHOOSE p \in FetchedPayments : TRUE

\* A save of record r with status s: the document is written, then on_update
\* runs.  The handler does not put the status back when it raises.
Save(r, s) ==
    /\ Captures(r, s) => Len(credits) < MaxCredits
    /\ \E payment \in FetchedPayments, fault \in Faults :
          LET o == on_update(r, s, payment, fault)
          IN  /\ Relevant(r, s, payment, fault)
              /\ status' = [status EXCEPT ![r] = s]
              /\ credits' = o.credits
              /\ invoices' = o.invoices
              /\ jobs' = o.jobs
              /\ calls' = o.calls
              /\ fetched' = IF Captures(r, s) /\ fault # "fetch"
                                THEN payment ELSE NoPayment
              /\ result' = o.result
    /\ UNCHANGED <<rtype, syncVars, rebootVars>>

-----------------------------------------------------------------------------
(* Gateway client: order.payments(order_id), and the webhook log *)

PaymentIds == {211, 212}

\* the items the gateway may list for order o; "missing" stands for an item
\* without a "status" key
Items(o) ==
    {[status |-> "captured", id |-> p, order_id |-> o] : p \in PaymentIds}
        \cup {[status |-> "failed", id |-> 213, order_id |-> o],
              [status |-> "missing", id |-> 213, order_id |-> o]}

SeqsUpTo(S, n) == UNION {[1..k -> S] : k \in 0..n}

\* what client.order.payments(o) does: it raises, it answers without "items",
\* or it answers with a list of items
Answers(o) ==
    {[kind |-> "raise", items |-> <<>>], [kind |-> "null", items |-> <<>>]}
        \cup {[kind |-> "ok", items |-> s] : s \in SeqsUpTo(Items(o), MaxItems)}

\* the names under which the captured items of an answer are to be logged
CapturedNames(answer) ==
    {answer.items[i].order_id :
        i \in {j \in DOMAIN answer.items : answer.items[j].status = "captured"}}

\* faults outside the gateway's answer: building the client, writing the log
\* (a log fault shows only when an answer has a captured item to write)
RoundFaults == {"none", "client", "db"}

LogDoc(item) ==
    [name |-> item.order_id, event |-> "order.paid", payment_id |-> item.id,
     payload |-> item]

\* Document.insert(ignore_if_duplicate=flag) on a document that carries its
\* name: a taken name is a duplicate, which the flag turns from an error into
\* a dropped write
insert(log, doc, ignore_if_duplicate) ==
    IF \E e \in log : e.name = doc.name
        THEN [log |-> log, duplicate |-> TRUE,
              error |-> IF ignore_if_duplicate THEN "none" ELSE "duplicate"]
        ELSE [log |-> log \cup {doc}, duplicate |-> FALSE, error |-> "none"]

\* the insert call written without its ignore_if_duplicate flag
InsertLog_NoFlag(log, doc) == insert(log, doc, FALSE)

\* the insert call of sync() and of the sweep
InsertLog(log, doc) == insert(log, doc, TRUE)

Round(log, dups, failure) == [log |-> log, duplicates |-> dups, failure |-> failure]

\* a test that lets every item through, whatever its status
IsCaptured_Any(item) == TRUE

\* if item["status"] == "captured"
IsCaptured(item) == item.status = "captured"

\* the loop over response.get("items"); failure names the step that raised,
\* dups the names whose write was dropped as a duplicate
RECURSIVE InsertCaptured(_, _, _, _)
InsertCaptured(log, dups, items, fault) ==
    IF items = <<>> THEN Round(log, dups, "none")
    ELSE LET item == Head(items)
             w == InsertLog(log, LogDoc(item))
         IN  IF item.status = "missing"
                 THEN Round(log, dups, "item")
             ELSE IF ~IsCaptured(item)
                 THEN InsertCaptured(log, dups, Tail(items), fault)
             ELSE IF fault = "db"
                 THEN Round(log, dups, "insert")
             ELSE IF w.error # "none"
                 THEN Round(log, dups, w.error)
             ELSE InsertCaptured(
                      w.log,
                      IF w.duplicate THEN dups \cup {item.order_id} ELSE dups,
                      Tail(items), fault)

\* the statements between the gateway call and the end of the try block
CapturePayments(log, answer, fault) ==
    IF answer.kind = "raise" THEN Round(log, {}, "payments")
    ELSE IF answer.kind = "null" THEN Round(log, {}, "items")
    ELSE InsertCaptured(log, {}, answer.items, fault)

\* the try block of sync()
SyncTry(log, answer, fault) ==
    IF fault = "client" THEN Round(log, {}, "client")
    ELSE CapturePayments(log, answer, fault)

\* an except clause that catches the gateway's errors only
SyncExcept_GatewayOnly(order_id, failure) ==
    IF failure = "none"
        THEN [logged |-> <<>>, result |-> "returned"]
    ELSE IF failure \in {"client", "payments"}
        THEN [logged |-> <<order_id>>, result |-> "returned"]
    ELSE [logged |-> <<>>, result |-> "raised"]

\* the except clause of sync(): every Exception is logged and swallowed
SyncExcept(order_id, failure) ==
    IF failure = "none"
        THEN [logged |-> <<>>, result |-> "returned"]
        ELSE [logged |-> <<order_id>>, result |-> "returned"]

sync(r) ==
    \E answer \in Answers(OrderOf(r)), fault \in RoundFaults :
        LET t == SyncTry(webhookLog, answer, fault)
            e == SyncExcept(OrderOf(r), t.failure)
        IN  /\ fault = "client" => answer.kind = "raise"
            /\ fault = "db" => CapturedNames(answer) # {}
            /\ webhookLog' = t.log
            /\ last' = [op |-> "sync", order_id |-> OrderOf(r),
                        captured |-> IF fault = "client" THEN {}
                                     ELSE CapturedNames(answer),
                        duplicates |-> t.duplicates,
                        failure |-> t.failure,
                        logged |-> e.logged, result |-> e.result]
            /\ UNCHANGED <<creation, sweepPc, hours, started,
                           pending_orders, queried, sweepErrors>>
            /\ UNCHANGED <<payVars, rebootVars>>

-----------------------------------------------------------------------------
(* fetch_pending_payment_orders(hours) *)

Hours == 0..MaxHours

\* what datetime.now() may read: no record is created in the future
Times == 1..MaxNow

\* datetime.now() - timedelta(hours=hours)
past_12hrs_ago(t, h) == t - h

\* a selection that leaves out the creation filter
get_all_pending_any_age(past) ==
    {OrderOf(r) : r \in {x \in Records : status[x] = "Pending"}}

\* frappe.get_all("Razorpay Payment Record", dict(status="Pending",
\* creation=(">=", past)), pluck="order_id"), as a set
get_all_pending(past) ==
    {OrderOf(r) : r \in {x \in Records : status[x] = "Pending" /\ creation[x] >= past}}

\* the orders in which a result set may be listed
Listings(S) ==
    {q \in [1..Cardinality(S) -> S] : \A i, j \in DOMAIN q : i # j => q[i] # q[j]}

\* a try block put around the loop instead of inside it
SweepExcept_AroundLoop(order_id, failure) ==
    IF failure = "none"
        THEN [logged |-> <<>>, goes_on |-> TRUE]
        ELSE [logged |-> <<order_id>>, goes_on |-> FALSE]

\* the except clause inside the loop: the failure is logged, the loop goes on
SweepExcept(order_id, failure) ==
    IF failure = "none"
        THEN [logged |-> <<>>, goes_on |-> TRUE]
        ELSE [logged |-> <<order_id>>, goes_on |-> TRUE]

\* lines 159-168: the selection, the client, the early return
SweepStart(h) ==
    /\ sweepPc # "loop"
    /\ \E t \in Times, fault \in {"none", "client"} :
       \E listing \in Listings(get_all_pending(past_12hrs_ago(t, h))) :
          /\ hours' = h
          /\ started' = t
          /\ pending_orders' = listing
          /\ sweepPc' = IF fault = "client" THEN "raised"
                        ELSE IF listing = <<>> THEN "returned"
                        ELSE "loop"
    /\ queried' = <<>>
    /\ sweepErrors' = <<>>
    /\ UNCHANGED <<creation, webhookLog, last>>
    /\ UNCHANGED <<payVars, rebootVars>>

\* one iteration of the loop of lines 170-185
SweepOrder ==
    /\ sweepPc = "loop"
    /\ LET order_id == pending_orders[Len(queried) + 1]
       IN  \E answer \in Answers(order_id), fault \in {"none", "db"} :
              LET t == CapturePayments(webhookLog, answer, fault)
                  e == SweepExcept(order_id, t.failure)
                  more == Len(queried) + 1 < Len(pending_orders)
              IN  /\ fault = "db" => CapturedNames(answer) # {}
                  /\ webhookLog' = t.log
                  /\ queried' = Append(queried, order_id)
                  /\ sweepErrors' = sweepErrors \o e.logged
                  /\ last' = [op |-> "sweep", order_id |-> order_id,
                              captured |-> CapturedNames(answer),
                              duplicates |-> t.duplicates,
                              failure |-> t.failure,
                              logged |-> e.logged,
                              result |-> IF e.goes_on THEN "returned" ELSE "raised"]
                  /\ sweepPc' = IF ~e.goes_on THEN "raised"
                                ELSE IF more THEN "loop"
                                ELSE "returned"
    /\ UNCHANGED <<creation, hours, started, pending_orders>>
    /\ UNCHANGED <<payVars, rebootVars>>


-----------------------------------------------------------------------------
(* SerialConsoleLog.run_reboot and the background queue *)

\* frappe.enqueue_doc(..., enqueue_after_commit=flag): the job is held back
\* until the transaction commits when the flag is set, queued at once otherwise
enqueue_doc(t, enqueue_after_commit) ==
    IF enqueue_after_commit
        THEN [afterCommit |-> afterCommit \cup {t}, queue |-> queue]
        ELSE [afterCommit |-> afterCommit, queue |-> queue \cup {t}]

\* the enqueue_doc call written without enqueue_after_commit
RebootEnqueue_AtOnce(t) == enqueue_doc(t, FALSE)

\* the keyword arguments of the enqueue_doc call in run_reboot
RebootEnqueue(t) == enqueue_doc(t, TRUE)

\* a request calls run_reboot() inside its transaction
run_reboot(t) ==
    /\ req[t] = "none"
    /\ req' = [req EXCEPT ![t] = "open"]
    /\ afterCommit' = RebootEnqueue(t).afterCommit
    /\ queue' = RebootEnqueue(t).queue
    /\ UNCHANGED <<pc, session, sends, waits>>
    /\ UNCHANGED <<payVars, syncVars>>

\* the request's transaction commits: held-back jobs reach the queue
Commit(t) ==
    /\ req[t] = "open"
    /\ req' = [req EXCEPT ![t] = "committed"]
    /\ queue' = queue \cup (afterCommit \cap {t})
    /\ afterCommit' = afterCommit \ {t}
    /\ UNCHANGED <<pc, session, sends, waits>>
    /\ UNCHANGED <<payVars, syncVars>>

\* the request's transaction rolls back: held-back jobs are dropped
Rollback(t) ==
    /\ req[t] = "open"
    /\ req' = [req EXCEPT ![t] = "rolledback"]
    /\ afterCommit' = afterCommit \ {t}
    /\ UNCHANGED <<queue, pc, session, sends, waits>>
    /\ UNCHANGED <<payVars, syncVars>>

-----------------------------------------------------------------------------
(* SerialConsoleLog._run_reboot *)

TIMEOUT == "TIMEOUT"
EOF == "EOF"

\* pattern lists a slip could have written instead
PromptPatterns_Tolerant == {"login:", "Password:", TIMEOUT}
HelpPatterns_Strict == {"sysrq: HELP"}
ResetPatterns_Strict == {"sysrq: Resetting"}
FinalPatterns_Tolerant == {"login:", TIMEOUT}

\* the pattern lists of the four expect() calls
PromptPatterns == {"login:", "Password:"}
HelpPatterns == {"sysrq: HELP", TIMEOUT}
ResetPatterns == {"sysrq: Resetting", TIMEOUT}
FinalPatterns == {"login:"}

\* what a wait can meet first: one of the texts it looks for, its time limit,
\* or the end of the session's output
Events(texts) == texts \cup {TIMEOUT, EOF}

\* pexpect's expect(): it returns when what it meets is in its pattern list and
\* raises TIMEOUT or EOF otherwise
expect(patterns, event) == IF event \in patterns THEN "matched" ELSE "raised"

NoWaits == [prompt |-> "-", help |-> "-", reset |-> "-", final |-> "-"]

Step(t, from, to) ==
    /\ pc[t] = from
    /\ pc' = [pc EXCEPT ![t] = to]

Send(t, from, text, to) ==
    /\ Step(t, from, to)
    /\ sends' = [sends EXCEPT ![t] = Append(@, text)]
    /\ UNCHANGED <<req, afterCommit, queue, session, waits>>
    /\ UNCHANGED <<payVars, syncVars>>

Wait(t, from, field, texts, patterns, to) ==
    /\ pc[t] = from
    /\ \E event \in Events(texts) :
          /\ waits' = [waits EXCEPT ![t][field] = event]
          /\ pc' = [pc EXCEPT ![t] =
                       IF expect(patterns, event) = "matched" THEN to ELSE "failed"]
    /\ UNCHANGED <<req, afterCommit, queue, session, sends>>
    /\ UNCHANGED <<payVars, syncVars>>

\* a worker that takes the job only while no other run holds a session
Start_Locked(t) ==
    /\ t \in queue
    /\ pc[t] = "idle"
    /\ \A u \in Tasks \ {t} : session[u] = "none" \/ pc[u] \in {"done", "failed"}
    /\ queue' = queue \ {t}
    /\ \E credentials \in {"command", "raise"} :
          IF credentials = "raise"
              THEN /\ pc' = [pc EXCEPT ![t] = "failed"]
                   /\ UNCHANGED session
              ELSE /\ pc' = [pc EXCEPT ![t] = "Settle"]
                   /\ session' = [session EXCEPT ![t] = "spawned"]
    /\ UNCHANGED <<req, afterCommit, sends, waits>>
    /\ UNCHANGED <<payVars, syncVars>>

\* a worker takes the job: lines 24-28, the credentials and the spawn
Start(t) ==
    /\ t \in queue
    /\ pc[t] = "idle"
    /\ queue' = queue \ {t}
    /\ \E credentials \in {"command", "raise"} :
          IF credentials = "raise"
              THEN /\ pc' = [pc EXCEPT ![t] = "failed"]
                   /\ UNCHANGED session
              ELSE /\ pc' = [pc EXCEPT ![t] = "Settle"]
                   /\ session' = [session EXCEPT ![t] = "spawned"]
    /\ UNCHANGED <<req, afterCommit, sends, waits>>
    /\ UNCHANGED <<payVars, syncVars>>

Settle(t) == Send(t, "Settle", "\n", "AwaitPrompt")
AwaitPrompt(t) ==
    Wait(t, "AwaitPrompt", "prompt", {"login:", "Password:"}, PromptPatterns, "Settle2")
Settle2(t) == Send(t, "Settle2", "~B", "SendH")
SendH(t) == Send(t, "SendH", "h", "AwaitHelp")
AwaitHelp(t) ==
    Wait(t, "AwaitHelp", "help", {"sysrq: HELP"}, HelpPatterns, "Settle3")
Settle3(t) == Send(t, "Settle3", "\n", "Break2")
\* the second break left out: the reset key follows the empty line
Break2_Omitted(t) == Send(t, "Break2", "b", "AwaitReset")

Break2(t) == Send(t, "Break2", "~B", "SendB")
SendB(t) == Send(t, "SendB", "b", "AwaitReset")
AwaitReset(t) ==
    Wait(t, "AwaitReset", "reset", {"sysrq: Resetting"}, ResetPatterns, "AwaitLoginFinal")
AwaitLoginFinal(t) ==
    Wait(t, "AwaitLoginFinal", "final", {"login:"}, FinalPatterns, "done")

-----------------------------------------------------------------------------
(* Specifications *)

NoRound == [op |-> "none", order_id |-> 0, captured |-> {}, duplicates |-> {},
            failure |-> "none", logged |-> <<>>, result |-> "returned"]

InitPay ==
    /\ credits = <<>>
    /\ invoices = <<>>
    /\ jobs = <<>>
    /\ calls = <<>>
    /\ fetched = NoPayment
    /\ result = "returned"

InitSync ==
    /\ webhookLog = {}
    /\ last = NoRound
    /\ sweepPc = "idle"
    /\ hours = 0
    /\ started = 1
    /\ pending_orders = <<>>
    /\ queried = <<>>
    /\ sweepErrors = <<>>

InitReboot ==
    /\ req = [t \in Tasks |-> "none"]
    /\ afterCommit = {}
    /\ queue = {}
    /\ pc = [t \in Tasks |-> "idle"]
    /\ session = [t \in Tasks |-> "none"]
    /\ sends = [t \in Tasks |-> <<>>]
    /\ waits = [t \in Tasks |-> NoWaits]

\* The capture handler: records that were never saved, of either type.
Init ==
    /\ status = [r \in Records |-> "Unsaved"]
    /\ rtype \in [Records -> Types]
    /\ \A r \in Records \ PayRecords : rtype[r] = "Prepaid Credits"
    /\ creation = [r \in Records |-> r - 1]
    /\ InitPay /\ InitSync /\ InitReboot

Next == \E r \in PayRecords, s \in Statuses : Save(r, s)

Spec == Init /\ [][Next]_vars

\* sync() and the sweep: saved records in any status, created an hour apart.
SyncInit ==
    /\ status \in [Records -> Statuses]
    /\ rtype = [r \in Records |-> "Prepaid Credits"]
    /\ creation = [r \in Records |-> r - 1]
    /\ InitPay /\ InitSync /\ InitReboot

SyncNext ==
    \/ \E r \in Records : sync(r)
    \/ \E h \in Hours : SweepStart(h)
    \/ SweepOrder

SyncSpec == SyncInit /\ [][SyncNext]_vars

\* The reboot driver: two requests on one SerialConsoleLog.
RebootNext ==
    \E t \in Tasks :
        \/ run_reboot(t) \/ Commit(t) \/ Rollback(t) \/ Start(t)
        \/ Settle(t) \/ AwaitPrompt(t)
        \/ Settle2(t) \/ SendH(t) \/ AwaitHelp(t)
        \/ Settle3(t) \/ Break2(t) \/ SendB(t) \/ AwaitReset(t)
        \/ AwaitLoginFinal(t)

RebootInit ==
    /\ status = [r \in Records |-> "Unsaved"]
    /\ rtype = [r \in Records |-> "Prepaid Credits"]
    /\ creation = [r \in Records |-> r - 1]
    /\ InitPay /\ InitSync /\ InitReboot

RebootSpec == RebootInit /\ [][RebootNext]_vars

-----------------------------------------------------------------------------
(* Properties of the payment flow *)

InvoicesOf(r) == {i \in DOMAIN invoices : invoices[i].razorpay_payment_record = r}

\* C1: whatever statuses a PaymentRecord is saved with, at most one Invoice
\* referencing it has been created.
C1_AtMostOneInvoice == \A r \in Records : Cardinality(InvoicesOf(r)) <= 1

\* C2: the webhook log holds at most one entry per order id; an insert for an
\* order id that already has an entry raises no error, and no stored entry is
\* ever changed or removed.
C2_InsertIdempotent ==
    /\ [](/\ \A e1, e2 \in webhookLog : e1.name = e2.name => e1 = e2
          /\ last.failure # "duplicate")
    /\ [][\A e \in webhookLog : e \in webhookLog']_vars

\* a sync() that met an entry already written while a sweep had asked the
\* gateway about the same order
C2_Witness ==
    /\ last.op = "sync"
    /\ last.duplicates = {last.order_id}
    /\ last.failure = "none"
    /\ last.order_id \in Range(queried)
    /\ \E e \in webhookLog : e.name = last.order_id

\* C3: sync() returns normally whatever fails inside it, and each failure is
\* logged once with the record's order id.
C3_SyncNeverRaises ==
    last.op = "sync" =>
        /\ last.result = "returned"
        /\ last.failure # "none" => last.logged = <<last.order_id>>

\* a sync() whose log insertion failed
C3_Witness ==
    /\ last.op = "sync"
    /\ last.failure = "insert"
    /\ last.logged = <<last.order_id>>
    /\ last.result = "returned"

\* C4: a failure on one order of a sweep is logged for that order and the
\* sweep goes on: it ends only after every selected order was asked about, and
\* every order that did not fail has its captured items in the webhook log.
C4_SweepGoesOn ==
    /\ sweepPc = "returned" => queried = pending_orders
    /\ sweepPc = "raised" => queried = <<>>
    /\ Range(sweepErrors) \subseteq Range(queried)
    /\ last.op = "sweep" =>
          /\ last.result = "returned"
          /\ last.failure # "none" => last.logged = <<last.order_id>>
          /\ last.failure = "none" =>
                \A n \in last.captured : \E e \in webhookLog : e.name = n

\* a finished sweep whose first order failed and whose second order had a
\* captured item written
C4_Witness ==
    /\ sweepPc = "returned"
    /\ Len(queried) = 2
    /\ sweepErrors = <<queried[1]>>
    /\ last.op = "sweep"
    /\ last.order_id = queried[2]
    /\ last.failure = "none"
    /\ last.captured = {queried[2]}
    /\ \E e \in webhookLog : e.name = queried[2]

\* the records a sweep started at `started` with threshold `hours` is to cover
InWindow(r) == status[r] = "Pending" /\ creation[r] >= started - hours

\* C5: a sweep asks the gateway only about orders of records that are Pending
\* and were created within the last `hours` hours; no other record's order is
\* asked about, and nothing is asked when no record qualifies.
C5_OnlyPendingInWindow ==
    /\ \A i \in DOMAIN queried :
          \E r \in Records : OrderOf(r) = queried[i] /\ InWindow(r)
    /\ \A r \in Records : ~InWindow(r) => OrderOf(r) \notin Range(queried)
    /\ (\A r \in Records : ~InWindow(r)) => queried = <<>>

\* a finished sweep that asked about one order and passed over a Pending
\* record created before its window
C5_Witness ==
    /\ sweepPc = "returned"
    /\ Len(queried) = 1
    /\ \E r \in Records :
          status[r] = "Pending" /\ creation[r] < started - hours

-----------------------------------------------------------------------------
(* Properties of the reboot driver *)

Ended(t, w) == waits[t][w] # "-"

\* the last wait of task t that ended, "-" when none has
LastWait(t) ==
    IF Ended(t, "final") THEN "final"
    ELSE IF Ended(t, "reset") THEN "reset"
    ELSE IF Ended(t, "help") THEN "help"
    ELSE IF Ended(t, "prompt") THEN "prompt"
    ELSE "-"

\* task t failed because its wait w ran into its time limit
TimedOutAt(t, w) ==
    pc[t] = "failed" /\ LastWait(t) = w /\ waits[t][w] = TIMEOUT

Sent(t, text) == \E i \in DOMAIN sends[t] : sends[t][i] = text

\* C6: when "login:" does not reappear in the final wait the run ends in
\* failure, and a run ends in success only after "login:" reappeared.
C6_NoLoginFails ==
    \A t \in Tasks :
        /\ (Ended(t, "final") /\ waits[t].final # "login:") => pc[t] = "failed"
        /\ pc[t] = "done" => waits[t].final = "login:"

\* a run whose final wait timed out
C6_Witness ==
    \E t \in Tasks :
        /\ waits[t].final = TIMEOUT
        /\ pc[t] = "failed"
        /\ Sent(t, "b")

\* C7: whether the HELP wait and the Resetting wait match or time out, the
\* driver goes on: it sends the reset key, reaches the final wait, and ends in
\* success when "login:" then appears.
C7_BannerTimeoutsTolerated ==
    \A t \in Tasks :
        /\ waits[t].help \in {"sysrq: HELP", TIMEOUT} =>
              pc[t] \in {"Settle3", "Break2", "SendB", "AwaitReset"}
                  \/ Ended(t, "reset")
        /\ (/\ waits[t].help \in {"sysrq: HELP", TIMEOUT}
            /\ waits[t].reset \in {"sysrq: Resetting", TIMEOUT}) =>
              /\ Sent(t, "b")
              /\ pc[t] = "AwaitLoginFinal" \/ Ended(t, "final")
              /\ waits[t].final = "login:" => pc[t] = "done"

\* two runs that ended in success, one after both banner waits timed out, one
\* after the HELP banner matched and the Resetting wait timed out
C7_Witness ==
    \E t, u \in Tasks :
        /\ waits[t].help = TIMEOUT /\ waits[t].reset = TIMEOUT
        /\ pc[t] = "done"
        /\ waits[u].help = "sysrq: HELP" /\ waits[u].reset = TIMEOUT
        /\ pc[u] = "done"

\* C8 as stated: the final wait is the only wait whose timeout makes the run
\* fail; a timeout of the initial prompt wait, of the HELP wait and of the
\* Resetting wait is tolerated.
C8_OnlyFinalTimeoutFatal ==
    \A t \in Tasks :
        \A w \in {"prompt", "help", "reset"} : ~TimedOutAt(t, w)

\* C8 as amended: a timeout of the HELP wait and of the Resetting wait is
\* tolerated and the sequence goes on; the waits whose timeout makes the run
\* fail are the initial prompt wait and the final wait, and both do.
C8_PromptAndFinalTimeoutFatal ==
    \A t \in Tasks :
        /\ ~TimedOutAt(t, "help")
        /\ ~TimedOutAt(t, "reset")
        /\ waits[t].help = TIMEOUT =>
              pc[t] \in {"Settle3", "Break2", "SendB", "AwaitReset"}
                  \/ Ended(t, "reset")
        /\ waits[t].reset = TIMEOUT =>
              pc[t] = "AwaitLoginFinal" \/ Ended(t, "final")
        /\ waits[t].prompt = TIMEOUT => TimedOutAt(t, "prompt")
        /\ waits[t].final = TIMEOUT => TimedOutAt(t, "final")

\* one run that failed on a timeout of the initial prompt wait, and one that
\* went through both banner timeouts and failed on a timeout of the final wait
C8_Witness ==
    \E t, u \in Tasks :
        /\ TimedOutAt(t, "prompt")
        /\ waits[u].help = TIMEOUT /\ waits[u].reset = TIMEOUT
        /\ TimedOutAt(u, "final")

\* C9: the initial wait completes only when "login:" or "Password:" appears;
\* when neither does the run fails there, having sent the empty line only.
C9_PromptRequired ==
    \A t \in Tasks :
        /\ (Ended(t, "prompt") /\ waits[t].prompt \notin {"login:", "Password:"}) =>
              /\ pc[t] = "failed"
              /\ LastWait(t) = "prompt"
              /\ sends[t] = <<"\n">>
        /\ (Sent(t, "~B") \/ Sent(t, "h") \/ Sent(t, "b") \/ pc[t] = "done") =>
              waits[t].prompt \in {"login:", "Password:"}

\* a run whose initial wait met neither prompt
C9_Witness ==
    \E t \in Tasks :
        /\ waits[t].prompt = TIMEOUT
        /\ pc[t] = "failed"
        /\ sends[t] = <<"\n">>

\* C10: run_reboot() only enqueues; a session is spawned, and anything sent,
\* only for a request whose transaction has committed.
C10_SpawnAfterCommit ==
    \A t \in Tasks :
        req[t] # "committed" =>
            /\ session[t] = "none"
            /\ sends[t] = <<>>
            /\ pc[t] = "idle"
            /\ t \notin queue

\* one request rolled back with its task never started, another still open
\* with its task held back
C10_Witness ==
    \E t, u \in Tasks :
        /\ req[t] = "rolledback" /\ session[t] = "none" /\ t \notin afterCommit
        /\ req[u] = "open" /\ u \in afterCommit /\ session[u] = "none"

-----------------------------------------------------------------------------
(* Properties of the capture handler *)

\* the last on_update ran a process_* method for record r
Ran(r) == calls # <<>> /\ calls[1].id = PaymentOf(r)

CalledOps == [i \in DOMAIN calls |-> calls[i].op]
Called(op) == \E i \in DOMAIN calls : calls[i].op = op
TimesCalled(op) == Cardinality({i \in DOMAIN calls : calls[i].op = op})

\* the last run's invoice.insert() returned: the handler went on to submit
Inserted == Called("submit")

LastInvoice == invoices[Len(invoices)]
LastCredit == credits[Len(credits)]

\* the tax note of the fetched payment in hundredths, 0 when it has none
NoteGst == IF fetched.notes = "gst=18" THEN 1800 ELSE 0

\* C11: the invoice created for a captured Prepaid Credits payment has
\* total = amount_due = gross/100 - gst and amount_due_with_tax = amount_paid =
\* gross/100, and the credit allocated equals total; gross 10000 with gst 18
\* gives total 82 and amount_paid 100 (here in hundredths).
C11_InvoiceAmounts ==
    \A r \in Records :
        (Ran(r) /\ rtype[r] = "Prepaid Credits" /\ Inserted) =>
            /\ LastInvoice.total = fetched.amount - NoteGst
            /\ LastInvoice.amount_due = fetched.amount - NoteGst
            /\ LastInvoice.amount_due_with_tax = fetched.amount
            /\ LastInvoice.amount_paid = fetched.amount
            /\ LastCredit.amount = LastInvoice.total
            /\ (fetched.amount = 10000 /\ fetched.notes = "gst=18") =>
                  LastInvoice.total = 8200 /\ LastInvoice.amount_paid = 10000

\* a Prepaid Credits capture of gross 10000 with gst 18 that went through
C11_Witness ==
    \E r \in Records :
        /\ Ran(r) /\ rtype[r] = "Prepaid Credits" /\ result = "returned"
        /\ fetched = [amount |-> 10000, notes |-> "gst=18"]
        /\ LastInvoice.total = 8200
        /\ LastInvoice.amount_paid = 10000
        /\ LastCredit.amount = 8200

\* the step ran a process_* method for record r
RunsOn(r) == calls' # <<>> /\ calls'[1].id = PaymentOf(r)

\* C12: a successful run on a Prepaid Credits record allocates exactly one
\* credit, creates and submits exactly one invoice of type "Prepaid Credits"
\* with status Paid, and enqueues exactly one follow-up; no run, successful or
\* not, does more than one of any of these.
C12_PrepaidSideEffects ==
    [][\A r \in Records :
          (RunsOn(r) /\ rtype[r] = "Prepaid Credits") =>
              /\ Len(credits') <= Len(credits) + 1
              /\ Len(invoices') <= Len(invoices) + 1
              /\ Len(jobs') <= Len(jobs) + 1
              /\ \A op \in {"allocate_credit_amount", "insert", "submit", "enqueue"} :
                    Cardinality({i \in DOMAIN calls' : calls'[i].op = op}) <= 1
              /\ result' = "returned" =>
                    /\ credits' = Append(credits, credits'[Len(credits')])
                    /\ invoices' = Append(invoices, invoices'[Len(invoices')])
                    /\ invoices'[Len(invoices')].type = "Prepaid Credits"
                    /\ invoices'[Len(invoices')].status = "Paid"
                    /\ invoices'[Len(invoices')].docstatus = 1
                    /\ jobs' = Append(jobs, TeamOf(r))]_vars

\* a second successful Prepaid Credits run: two credits, invoices and jobs
C12_Witness ==
    \E r \in Records :
        /\ Ran(r) /\ rtype[r] = "Prepaid Credits" /\ result = "returned"
        /\ Len(credits) = 2 /\ Len(invoices) = 2 /\ Len(jobs) = 2
        /\ TimesCalled("enqueue") = 1

\* C13: a successful run on a Partnership Fee record computes the amounts as
\* for Prepaid Credits, allocates one credit of type "Partnership Fee", creates
\* and submits one invoice of type "Partnership Fees", and enqueues nothing.
C13_PartnershipSideEffects ==
    [][\A r \in Records :
          (RunsOn(r) /\ rtype[r] = "Partnership Fee" /\ result' = "returned") =>
              /\ credits' = Append(credits, credits'[Len(credits')])
              /\ credits'[Len(credits')].type = "Partnership Fee"
              /\ credits'[Len(credits')].amount = fetched'.amount
                    - (IF fetched'.notes = "gst=18" THEN 1800 ELSE 0)
              /\ invoices' = Append(invoices, invoices'[Len(invoices')])
              /\ invoices'[Len(invoices')].type = "Partnership Fees"
              /\ invoices'[Len(invoices')].docstatus = 1
              /\ invoices'[Len(invoices')].total = credits'[Len(credits')].amount
              /\ invoices'[Len(invoices')].amount_paid = fetched'.amount
              /\ jobs' = jobs
              /\ \A i \in DOMAIN calls' : calls'[i].op # "enqueue"]_vars

\* a Partnership Fee capture that went through
C13_Witness ==
    \E r \in Records :
        /\ Ran(r) /\ rtype[r] = "Partnership Fee" /\ result = "returned"
        /\ LastInvoice.type = "Partnership Fees"
        /\ LastCredit.type = "Partnership Fee"
        /\ jobs = <<>>

\* C14: a save that leaves the status as it was, or that changes it to Pending
\* or Failed, fetches nothing, allocates nothing, creates no invoice and
\* enqueues nothing.
C14_OnlyOnChangeToCaptured ==
    [][(\A r \in Records :
           ~(status'[r] # status[r] /\ status'[r] = "Captured")) =>
          /\ calls' = <<>>
          /\ fetched' = NoPayment
          /\ credits' = credits
          /\ invoices' = invoices
          /\ jobs' = jobs]_vars

\* a record captured once and saved again as Captured
C14_Witness ==
    \E r \in Records :
        /\ status[r] = "Captured"
        /\ calls = <<>>
        /\ Len(invoices) = 1 /\ Len(credits) = 1

\* C15: when a step of the handler raises, the exception reaches the caller,
\* the status stays Captured and nothing already done is undone: a failed fetch
\* leaves no credit and no invoice, a failed insert or submit leaves the credit
\* without a submitted invoice, and no follow-up is enqueued.
C15_NoLocalRecovery ==
    [][\A r \in Records :
          (RunsOn(r) /\ result' = "raised") =>
              LET lastOp == calls'[Len(calls')].op
              IN  /\ status'[r] = "Captured"
                  /\ jobs' = jobs
                  /\ lastOp \in {"fetch", "allocate_credit_amount"} =>
                        credits' = credits /\ invoices' = invoices
                  /\ lastOp = "insert" =>
                        /\ Len(credits') = Len(credits) + 1
                        /\ invoices' = invoices
                  /\ lastOp = "submit" =>
                        /\ Len(credits') = Len(credits) + 1
                        /\ Len(invoices') = Len(invoices) + 1
                        /\ invoices'[Len(invoices')].docstatus = 0
                  /\ lastOp = "enqueue" =>
                        /\ Len(credits') = Len(credits) + 1
                        /\ Len(invoices') = Len(invoices) + 1]_vars

\* a run that raised at invoice insert, its credit left without an invoice
C15_Witness ==
    \E r \in Records :
        /\ Ran(r) /\ result = "raised"
        /\ calls[Len(calls)].op = "insert"
        /\ status[r] = "Captured"
        /\ Len(credits) = 1 /\ invoices = <<>> /\ jobs = <<>>

\* C16: a successful Prepaid Credits run goes fetch, credit allocation,
\* invoice insert, invoice submit, enqueue; its invoice has a single line item
\* naming the transaction that run's allocation returned, and names the
\* record and its order id.
C16_OrderAndReferences ==
    \A r \in Records :
        (Ran(r) /\ rtype[r] = "Prepaid Credits" /\ result = "returned") =>
            /\ CalledOps = <<"fetch", "allocate_credit_amount", "insert",
                             "submit", "enqueue">>
            /\ Len(LastInvoice.items) = 1
            /\ LastInvoice.items[1].document_type = "Balance Transaction"
            /\ LastInvoice.items[1].document_name = LastCredit.name
            /\ LastCredit.remark = PaymentOf(r)
            /\ LastInvoice.razorpay_payment_record = r
            /\ LastInvoice.razorpay_order_id = OrderOf(r)

\* a second successful Prepaid Credits run, its item naming the second credit
C16_Witness ==
    \E r \in Records :
        /\ Ran(r) /\ rtype[r] = "Prepaid Credits" /\ result = "returned"
        /\ Len(credits) = 2
        /\ LastInvoice.items[1].document_name = 2

-----------------------------------------------------------------------------
(* Frame of sync() and of the sweep *)

\* C17: sync() and the sweep only add WebhookLogEntry records, at most one per
\* order and only for items whose gateway status is "captured"; they leave
\* every PaymentRecord's status, the credits and the invoices as they were, so
\* a Pending record is still Pending afterwards.
C17_SyncOnlyAddsLogEntries ==
    [][/\ status' = status
       /\ credits' = credits
       /\ invoices' = invoices
       /\ jobs' = jobs
       /\ webhookLog \subseteq webhookLog'
       /\ Cardinality(webhookLog' \ webhookLog) <= 1
       /\ \A e \in webhookLog' \ webhookLog :
             /\ e.payload.status = "captured"
             /\ e.name = last'.order_id
             /\ e.name = e.payload.order_id
       /\ \A e1, e2 \in webhookLog' : e1.name = e2.name => e1 = e2]_vars

\* a round that logged the captured payment of an order whose record is
\* still Pending, with no credit and no invoice
C17_Witness ==
    \E r \in Records :
        /\ status[r] = "Pending"
        /\ last.order_id = OrderOf(r)
        /\ last.failure = "none"
        /\ \E e \in webhookLog : e.name = OrderOf(r) /\ e.payload.status = "captured"
        /\ credits = <<>> /\ invoices = <<>>

-----------------------------------------------------------------------------
(* The sends of the reboot driver, and runs that overlap *)

FullSends == <<"\n", "~B", "h", "\n", "~B", "b">>

TimesSent(t, text) == Cardinality({i \in DOMAIN sends[t] : sends[t][i] = text})

\* C18: a run that reaches the final wait has sent exactly: empty line, break,
\* "h", empty line, break, "b"; "b" is sent at most once, only after the
\* initial prompt matched and the HELP wait ended in a match or a timeout, and
\* every sysrq key comes right after a break.
C18_SendSequence ==
    \A t \in Tasks :
        /\ (pc[t] \in {"AwaitLoginFinal", "done"} \/ Ended(t, "final")) =>
              /\ sends[t] = FullSends
              /\ TimesSent(t, "b") = 1
        /\ TimesSent(t, "b") <= 1
        /\ Sent(t, "b") =>
              /\ waits[t].prompt \in {"login:", "Password:"}
              /\ waits[t].help \in {"sysrq: HELP", TIMEOUT}
        /\ \A i \in DOMAIN sends[t] :
              sends[t][i] \in {"h", "b"} => i > 1 /\ sends[t][i - 1] = "~B"

\* a run that got to the end although the HELP banner never showed
C18_Witness ==
    \E t \in Tasks :
        /\ pc[t] = "done"
        /\ waits[t].help = TIMEOUT
        /\ sends[t] = FullSends

\* task t holds a session that has not ended
Live(t) == session[t] = "spawned" /\ pc[t] \notin {"done", "failed"}

\* C19: reboot attempts on one record do not exclude each other: every
\* committed request has its own task, and a queued task can be started
\* whatever the other task is doing, so two runs can hold a session at once
\* and both send the reset key.
C19_NoMutualExclusion ==
    \A t \in Tasks :
        /\ req[t] = "committed" => (t \in queue \/ pc[t] # "idle")
        /\ (t \in queue /\ pc[t] = "idle") => ENABLED Start(t)

\* two runs that overlap, each with a session and its reset key sent
C19_Witness ==
    /\ \A t \in Tasks : Live(t) /\ Sent(t, "b")
    /\ pc[1] = "AwaitReset" /\ pc[2] = "AwaitLoginFinal"

====
